---- MODULE Spec2Model ----
(***************************************************************************)
(* Model of build_vector_db.py: the script that rebuilds a Chroma vector   *)
(* store over the PDF files of the folder "docs" whenever the folder's PDF *)
(* file names differ from the names recorded in a JSON ledger, or the      *)
(* store's persist directory is missing.                                   *)
(*                                                                         *)
(* One invocation of the script is a run.  A run is cut into steps at the  *)
(* places where it reads or writes the file system or calls a backend, and *)
(* the folder, which the script never writes, may be changed by its owner  *)
(* between any two steps.  The guards of lines 23 and 88 (API key set,     *)
(* folder present) are taken to pass.                                      *)
(***************************************************************************)
EXTENDS Naturals, FiniteSets, Sequences, TLC

\* Rebuild attempts the model follows; every rebuild tags the entries it writes.
MaxBuilds == 2

(***************************************************************************)
(* File names.  A name is its stem and its suffix (pathlib's Path.suffix). *)
(***************************************************************************)
a_pdf == [stem |-> "a", suffix |-> ".pdf"]
b_PDF == [stem |-> "b", suffix |-> ".PDF"]
notes_txt == [stem |-> "notes", suffix |-> ".txt"]
README == [stem |-> "README", suffix |-> ""]
old_pdf == [stem |-> "old", suffix |-> ".pdf"]

Names == {a_pdf, b_PDF, notes_txt, README, old_pdf}

\* What an entry of the folder can be: a regular file that parses ("file"), a
\* regular file the PDF loader fails on ("corrupt"), or a subfolder ("dir").
Kinds(n) ==
  CASE n = a_pdf -> {"file", "corrupt"}
    [] n = b_PDF -> {"file"}
    [] n = old_pdf -> {"dir"}
    [] OTHER -> {"file"}

Folders == {f \in [Names -> {"absent", "file", "corrupt", "dir"}] :
              \A n \in Names : f[n] = "absent" \/ f[n] \in Kinds(n)}

\* str.lower() on the suffixes that occur.
lower(s) == CASE s = ".PDF" -> ".pdf" [] OTHER -> s

iterdir(f) == {n \in Names : f[n] # "absent"}

is_file(f, n) == f[n] \in {"file", "corrupt"}

\* The scan without the test for a regular file.
get_current_pdf_files_any_entry(f) ==
  {n \in iterdir(f) : lower(n.suffix) = ".pdf"}

get_current_pdf_files(f) ==
  {n \in iterdir(f) : is_file(f, n) /\ lower(n.suffix) = ".pdf"}

(***************************************************************************)
(* The ledger file: whether it exists, and the JSON list it holds.         *)
(***************************************************************************)
NoFile == [exists |-> FALSE, text |-> <<>>]

Range(s) == {s[i] : i \in DOMAIN s}

\* list(files_set): the elements of the set in some order, each once.
Listings(S) == {s \in [1..Cardinality(S) -> S] : Range(s) = S}

load_processed_files_record(file) ==
  IF file.exists THEN Range(file.text) ELSE {}

\* open(path, 'w') and json.dump(list(files_set)): the files that can result.
save_processed_files_record(files_set) ==
  {[exists |-> TRUE, text |-> s] : s \in Listings(files_set)}

(***************************************************************************)
(* Lines 116-139, one pass of the loop body for the entry n of folder f:   *)
(* whether the entry was given to PyPDFLoader, whether its pages were      *)
(* added to docs, and whether the except clause logged an error for it.    *)
(* A missing suffix raises at line 124 and a failing loader at line 129;   *)
(* both are caught at line 134, and the loop goes on to the next entry.    *)
(***************************************************************************)
process_entry(f, n) ==
  IF ~is_file(f, n)
  THEN [handed |-> FALSE, loaded |-> FALSE, error |-> FALSE]
  ELSE IF n.suffix = ""
  THEN [handed |-> FALSE, loaded |-> FALSE, error |-> TRUE]
  ELSE IF lower(n.suffix) = ".pdf"
  THEN [handed |-> TRUE, loaded |-> f[n] = "file", error |-> f[n] = "corrupt"]
  ELSE [handed |-> FALSE, loaded |-> FALSE, error |-> FALSE]

\* The loop with an error that ends it: nothing after the failing entry is loaded.
process_folder_stop_on_error(f) ==
  LET failed == \E n \in iterdir(f) : process_entry(f, n).error
  IN [handed |-> {n \in iterdir(f) : process_entry(f, n).handed},
      docs |-> IF failed THEN {} ELSE {n \in iterdir(f) : process_entry(f, n).loaded},
      errors |-> {n \in iterdir(f) : process_entry(f, n).error}]

process_folder(f) ==
  [handed |-> {n \in iterdir(f) : process_entry(f, n).handed},
   docs |-> {n \in iterdir(f) : process_entry(f, n).loaded},
   errors |-> {n \in iterdir(f) : process_entry(f, n).error}]

\* Lines 147-152: the chunks of the loaded documents, each with its source.
split_documents(docs) == {[source |-> n, start_index |-> 0] : n \in docs}

\* The entries a rebuild writes for a set of chunks: Chroma.from_documents
\* gives every document a fresh id, here the number of the rebuild.
Entries(chunks, build) ==
  {[source |-> c.source, start_index |-> c.start_index, build |-> build] : c \in chunks}


needs_rebuild_additions_only(index_exists, current, recorded) ==
  ~index_exists \/ ~(current \subseteq recorded)

NeedsRebuild(index_exists, current, recorded) ==
  \/ ~index_exists
  \/ ~(current \subseteq recorded)
  \/ ~(recorded \subseteq current)

VARIABLES
  folder,                     \* the entries of docs/
  ledgerFile,                 \* the file at PROCESSED_FILES_RECORD
  chroma,                     \* CHROMA_PERSIST_DIRECTORY: exists, collection
  pc,                         \* position of the run
  current_pdf_files,          \* line 92
  processed_files_on_record,  \* line 95
  needs_rebuild,              \* line 104
  all_splits,                 \* line 152
  pending,                    \* chunks from_documents has not yet upserted
  builds,                     \* rebuilds started so far
  handed,                     \* files given to PyPDFLoader by this run
  errors,                     \* entries this run logged an error for
  calls,                      \* backend and ledger calls made by this run
  before,                     \* ledger and store when this run started
  lastOutcome,                \* how the last finished run ended
  fsChanged,                  \* folder changed since this run's scan
  repeats,                    \* outcome of the run before this one, when the folder
                              \* did not change between its scan and this run's scan
  ledgerBuild                 \* the rebuild that wrote the ledger

vars == <<folder, ledgerFile, chroma, pc, current_pdf_files,
          processed_files_on_record, needs_rebuild, all_splits, pending, builds,
          handed, errors, calls, before, lastOutcome, fsChanged,
          repeats, ledgerBuild>>

runVars == <<current_pdf_files, processed_files_on_record, needs_rebuild,
             all_splits, pending, handed, errors, calls, before>>

(***************************************************************************)
(* State of the two closer views below: the ledger file as the text that   *)
(* save writes and load parses, and one page as the text splitter cuts it. *)
(* The runs above leave both at rest.                                      *)
(***************************************************************************)
VARIABLES
  disk,        \* the file at record_path: exists, text (JSON tokens)
  lpc,         \* "idle", or "saving" inside save_processed_files_record
  out,         \* tokens json.dump has still to write
  files_set,   \* the argument of the save in progress or last made
  priorDisk,   \* the file when that save was called
  saveEnded,   \* "none", "saved" or "crashed"
  loaded,      \* what the last load returned or raised
  page,        \* the paragraphs of the page, as their lengths
  all_chunks   \* the chunks of the page: start_index and length

ledgerVars == <<disk, lpc, out, files_set, priorDisk, saveEnded, loaded>>

chunkVars == <<page, all_chunks>>

LedgerAtRest ==
  /\ disk = [exists |-> FALSE, text |-> <<>>]
  /\ lpc = "idle"
  /\ out = <<>>
  /\ files_set = {}
  /\ priorDisk = disk
  /\ saveEnded = "none"
  /\ loaded = [status |-> "none", value |-> {}]

ChunksAtRest ==
  /\ page = <<>>
  /\ all_chunks = <<>>

Init ==
  /\ folder \in Folders
  /\ ledgerFile = NoFile
  /\ chroma = [exists |-> FALSE, collection |-> {}]
  /\ pc = "idle"
  /\ current_pdf_files = {}
  /\ processed_files_on_record = {}
  /\ needs_rebuild = FALSE
  /\ all_splits = {}
  /\ pending = {}
  /\ builds = 0
  /\ handed = {}
  /\ errors = {}
  /\ calls = {}
  /\ before = [ledger |-> NoFile, store |-> chroma]
  /\ lastOutcome = "none"
  /\ fsChanged = FALSE
  /\ repeats = "none"
  /\ ledgerBuild = 0
  /\ LedgerAtRest
  /\ ChunksAtRest

(***************************************************************************)
(* The owner of docs/ adds, replaces or removes an entry.  A run reads the *)
(* folder at line 92 and again at line 116 and not after, so a change made *)
(* while the store is written acts as one made right after the run.        *)
(***************************************************************************)
ChangeFolder ==
  \E n \in Names : \E k \in Kinds(n) \cup {"absent"} :
    /\ pc \in {"idle", "decided"}
    /\ folder[n] # k
    /\ folder' = [folder EXCEPT ![n] = k]
    /\ fsChanged' = TRUE
    /\ UNCHANGED <<ledgerFile, chroma, pc, runVars, builds, lastOutcome,
                   repeats, ledgerBuild>>

(***************************************************************************)
(* Lines 88-106: scan docs/, load the ledger, decide.                      *)
(***************************************************************************)
Start ==
  /\ pc = "idle"
  /\ LET current == get_current_pdf_files(folder)
         recorded == load_processed_files_record(ledgerFile)
         decision == NeedsRebuild(chroma.exists, current, recorded)
     IN /\ decision => builds < MaxBuilds
        /\ current_pdf_files' = current
        /\ processed_files_on_record' = recorded
        /\ needs_rebuild' = decision
  /\ pc' = "decided"
  /\ all_splits' = {}
  /\ pending' = {}
  /\ handed' = {}
  /\ errors' = {}
  /\ calls' = {}
  /\ before' = [ledger |-> ledgerFile, store |-> chroma]
  /\ repeats' = IF fsChanged THEN "none" ELSE lastOutcome
  /\ fsChanged' = FALSE
  /\ UNCHANGED <<folder, ledgerFile, chroma, builds, lastOutcome, ledgerBuild>>

\* The else branch writing the ledger again.
UpToDate_resaving ==
  /\ pc = "decided"
  /\ ~needs_rebuild
  /\ ledgerFile' \in save_processed_files_record(current_pdf_files)
  /\ calls' = calls \cup {"save"}
  /\ pc' = "idle"
  /\ lastOutcome' = "noop"
  /\ UNCHANGED <<folder, chroma, current_pdf_files, processed_files_on_record,
                 needs_rebuild, all_splits, pending, handed, errors, before,
                 builds, fsChanged, repeats, ledgerBuild>>

(***************************************************************************)
(* Lines 170-171: nothing to do.                                           *)
(***************************************************************************)
UpToDate ==
  /\ pc = "decided"
  /\ ~needs_rebuild
  /\ pc' = "idle"
  /\ lastOutcome' = "noop"
  /\ UNCHANGED <<folder, ledgerFile, chroma, runVars, builds, 
                 fsChanged, repeats, ledgerBuild>>

(***************************************************************************)
(* Lines 110-153: load every PDF of docs/, listed anew, and split.         *)
(***************************************************************************)
ExtractAndSplit ==
  /\ pc = "decided"
  /\ needs_rebuild
  /\ LET r == process_folder(folder)
     IN /\ handed' = r.handed
        /\ errors' = r.errors
        /\ all_splits' = split_documents(r.docs)
  /\ builds' = builds + 1
  /\ calls' = calls \cup {"extract"}
  /\ pc' = "loaded"
  /\ UNCHANGED <<folder, ledgerFile, chroma, current_pdf_files,
                 processed_files_on_record, needs_rebuild, pending, before,
                 lastOutcome, fsChanged, repeats, ledgerBuild>>

\* The ledger written before the store: line 168 placed ahead of line 159.
OpenStore_after_saving ==
  /\ pc = "loaded"
  /\ chroma' = [chroma EXCEPT !.exists = TRUE]
  /\ pending' = all_splits
  /\ ledgerFile' \in save_processed_files_record(current_pdf_files)
  /\ calls' = calls \cup {"store", "save"}
  /\ pc' = "writing"
  /\ UNCHANGED <<folder, current_pdf_files, processed_files_on_record,
                 needs_rebuild, all_splits, builds, handed, errors, before,
                 lastOutcome, fsChanged, repeats, ledgerBuild>>

(***************************************************************************)
(* Line 159, first part: Chroma.from_documents builds the client, which    *)
(* creates the persist directory, and gets or creates the collection.      *)
(***************************************************************************)
OpenStore ==
  /\ pc = "loaded"
  /\ chroma' = [chroma EXCEPT !.exists = TRUE]
  /\ pending' = all_splits
  /\ calls' = calls \cup {"store"}
  /\ pc' = "writing"
  /\ UNCHANGED <<folder, ledgerFile, current_pdf_files, processed_files_on_record,
                 needs_rebuild, all_splits, builds, handed, errors, before,
                 lastOutcome, fsChanged, repeats, ledgerBuild>>

(***************************************************************************)
(* Line 159, second part: one batch of chunks is embedded and upserted     *)
(* under fresh ids; what the collection held stays.                        *)
(***************************************************************************)
AddBatch ==
  /\ pc = "writing"
  /\ \E batch \in SUBSET pending :
       /\ batch # {}
       /\ chroma' = [chroma EXCEPT !.collection = @ \cup Entries(batch, builds)]
       /\ pending' = pending \ batch
  /\ calls' = calls \cup {"embed", "upsert"}
  /\ UNCHANGED <<folder, ledgerFile, pc, current_pdf_files,
                 processed_files_on_record, needs_rebuild, all_splits, builds,
                 handed, errors, before, lastOutcome, fsChanged,
                 repeats, ledgerBuild>>

(***************************************************************************)
(* Line 159 raises: the client, the embedding call or the upsert failed.   *)
(* The exception is not caught, the script ends.                           *)
(***************************************************************************)
BackendFails ==
  /\ \/ pc = "loaded"
     \/ pc = "writing" /\ (pending # {} \/ all_splits = {})
  /\ pc' = "idle"
  /\ lastOutcome' = "failed"
  /\ UNCHANGED <<folder, ledgerFile, chroma, runVars, builds, 
                 fsChanged, repeats, ledgerBuild>>

\* The ledger merged with what it held: the recorded names are kept.
SaveRecord_merging ==
  /\ pc = "writing"
  /\ pending = {}
  /\ ledgerFile' \in save_processed_files_record(
                       current_pdf_files \cup processed_files_on_record)
  /\ ledgerBuild' = builds
  /\ calls' = calls \cup {"save"}
  /\ pc' = "idle"
  /\ lastOutcome' = "ok"
  /\ UNCHANGED <<folder, chroma, current_pdf_files, processed_files_on_record,
                 needs_rebuild, all_splits, pending, builds, handed, errors,
                 before, fsChanged, repeats>>

\* The ledger written from the documents that were loaded, not from the scan.
SaveRecord_loaded_only ==
  /\ pc = "writing"
  /\ pending = {}
  /\ ledgerFile' \in save_processed_files_record({c.source : c \in all_splits})
  /\ ledgerBuild' = builds
  /\ calls' = calls \cup {"save"}
  /\ pc' = "idle"
  /\ lastOutcome' = "ok"
  /\ UNCHANGED <<folder, chroma, current_pdf_files, processed_files_on_record,
                 needs_rebuild, all_splits, pending, builds, handed, errors,
                 before, fsChanged, repeats>>

(***************************************************************************)
(* Lines 165-168: from_documents returned; the ledger is written.          *)
(***************************************************************************)
SaveRecord ==
  /\ pc = "writing"
  /\ pending = {}
  /\ ledgerFile' \in save_processed_files_record(current_pdf_files)
  /\ ledgerBuild' = builds
  /\ calls' = calls \cup {"save"}
  /\ pc' = "idle"
  /\ lastOutcome' = "ok"
  /\ UNCHANGED <<folder, chroma, current_pdf_files, processed_files_on_record,
                 needs_rebuild, all_splits, pending, builds, handed, errors,
                 before, fsChanged, repeats>>

Next ==
  \/ ChangeFolder /\ UNCHANGED <<ledgerVars, chunkVars>>
  \/ Start /\ UNCHANGED <<ledgerVars, chunkVars>>
  \/ UpToDate /\ UNCHANGED <<ledgerVars, chunkVars>>
  \/ ExtractAndSplit /\ UNCHANGED <<ledgerVars, chunkVars>>
  \/ OpenStore /\ UNCHANGED <<ledgerVars, chunkVars>>
  \/ AddBatch /\ UNCHANGED <<ledgerVars, chunkVars>>
  \/ BackendFails /\ UNCHANGED <<ledgerVars, chunkVars>>
  \/ SaveRecord /\ UNCHANGED <<ledgerVars, chunkVars>>

allVars == <<vars, ledgerVars, chunkVars>>

Spec == Init /\ [][Next]_allVars

(***************************************************************************)
(* The ledger file as text.  json.dump writes a list of strings as the     *)
(* tokens [ "s" , "s" ] (the indent is white space between tokens), and    *)
(* json.load parses what it finds: a list of strings, a lone string, or    *)
(* nothing valid.  A file name is kept as a string; one of the two names   *)
(* holds a quote, which JSON writes escaped.                               *)
(***************************************************************************)
\* Tokens a file text may hold, beyond those of the model's own lists.
MaxTextLen == 3

FileNameStrings == {"a.pdf", "q\".pdf"}

LB == [t |-> "[", s |-> ""]
RB == [t |-> "]", s |-> ""]
COMMA == [t |-> ",", s |-> ""]
Str(body) == [t |-> "str", s |-> body]

\* The body of the JSON string for a Python string, and back.
json_escape(x) == CASE x = "q\".pdf" -> "q\\\".pdf" [] OTHER -> x
json_unescape(b) == CASE b = "q\\\".pdf" -> "q\".pdf" [] OTHER -> b

Tokens == {LB, RB, COMMA} \cup {Str(json_escape(x)) : x \in FileNameStrings}

Texts == UNION {[1..k -> Tokens] : k \in 0..MaxTextLen}

DiskContents ==
  {[exists |-> FALSE, text |-> <<>>]} \cup {[exists |-> TRUE, text |-> t] : t \in Texts}

RECURSIVE json_items(_)
json_items(l) ==
  IF l = <<>> THEN <<>>
  ELSE IF Len(l) = 1 THEN <<Str(json_escape(l[1]))>>
  ELSE <<Str(json_escape(l[1])), COMMA>> \o json_items(Tail(l))

\* json.dump(list, f, indent=4)
json_dump(l) == <<LB>> \o json_items(l) \o <<RB>>

\* json.load(f): the value parsed, or the JSONDecodeError.
json_load(text) ==
  LET n == Len(text)
      inner == n - 2
  IN IF n = 1 /\ text[1].t = "str"
     THEN [kind |-> "str", str |-> json_unescape(text[1].s), items |-> <<>>]
     ELSE IF /\ n >= 2
             /\ text[1] = LB
             /\ text[n] = RB
             /\ inner = 0 \/ inner % 2 = 1
             /\ \A i \in 1..inner :
                  IF i % 2 = 1 THEN text[i + 1].t = "str" ELSE text[i + 1] = COMMA
     THEN [kind |-> "list", str |-> "",
           items |-> [j \in 1..((inner + 1) \div 2) |-> json_unescape(text[2 * j].s)]]
     ELSE [kind |-> "error", str |-> "", items |-> <<>>]

\* The characters of a string, as set() iterates them.
chars(x) ==
  CASE x = "a.pdf" -> {"a", ".", "p", "d", "f"}
    [] x = "q\".pdf" -> {"q", "\"", ".", "p", "d", "f"}
    [] OTHER -> {}

\* set(value) for the values json.load returns here.
python_set(v) == IF v.kind = "list" THEN Range(v.items) ELSE chars(v.str)

\* Lines 69-72 on the file as it is on disk.
LoadRecord(file) ==
  IF ~file.exists THEN [status |-> "set", value |-> {}]
  ELSE LET v == json_load(file.text)
       IN IF v.kind = "error" THEN [status |-> "error", value |-> {}]
          ELSE [status |-> "set", value |-> python_set(v)]

\* The runs at rest: nothing in docs/, no ledger, no store, no run made.
RunsAtRest ==
  /\ folder = [n \in Names |-> "absent"]
  /\ ledgerFile = NoFile
  /\ chroma = [exists |-> FALSE, collection |-> {}]
  /\ pc = "idle"
  /\ current_pdf_files = {}
  /\ processed_files_on_record = {}
  /\ needs_rebuild = FALSE
  /\ all_splits = {}
  /\ pending = {}
  /\ builds = 0
  /\ handed = {}
  /\ errors = {}
  /\ calls = {}
  /\ before = [ledger |-> NoFile, store |-> chroma]
  /\ lastOutcome = "none"
  /\ fsChanged = FALSE
  /\ repeats = "none"
  /\ ledgerBuild = 0

InitLedger ==
  /\ RunsAtRest
  /\ ChunksAtRest
  /\ disk \in DiskContents
  /\ lpc = "idle"
  /\ out = <<>>
  /\ files_set = {}
  /\ priorDisk = disk
  /\ saveEnded = "none"
  /\ loaded = [status |-> "none", value |-> {}]

\* open(record_path, 'a'): the file is not truncated.
OpenForAppend ==
  /\ lpc = "idle"
  /\ \E S \in SUBSET FileNameStrings : \E l \in Listings(S) :
       /\ files_set' = S
       /\ out' = json_dump(l)
  /\ disk' = [disk EXCEPT !.exists = TRUE]
  /\ priorDisk' = disk
  /\ lpc' = "saving"
  /\ saveEnded' = "none"
  /\ loaded' = [status |-> "none", value |-> {}]

(***************************************************************************)
(* Line 76: open(record_path, 'w') creates the file or empties it; line 77 *)
(* has json.dump ready to write list(files_set).                           *)
(***************************************************************************)
OpenForWrite ==
  /\ lpc = "idle"
  /\ \E S \in SUBSET FileNameStrings : \E l \in Listings(S) :
       /\ files_set' = S
       /\ out' = json_dump(l)
  /\ disk' = [exists |-> TRUE, text |-> <<>>]
  /\ priorDisk' = disk
  /\ lpc' = "saving"
  /\ saveEnded' = "none"
  /\ loaded' = [status |-> "none", value |-> {}]

\* Line 77: the next part of the text reaches the file.
WriteOut ==
  /\ lpc = "saving"
  /\ out # <<>>
  /\ disk' = [disk EXCEPT !.text = Append(@, Head(out))]
  /\ out' = Tail(out)
  /\ UNCHANGED <<lpc, files_set, priorDisk, saveEnded, loaded>>

\* Line 77, end of the with block: the file is closed.
CloseFile ==
  /\ lpc = "saving"
  /\ out = <<>>
  /\ lpc' = "idle"
  /\ saveEnded' = "saved"
  /\ UNCHANGED <<disk, out, files_set, priorDisk, loaded>>

\* The process dies inside save: what has not reached the file is lost.
Crash ==
  /\ lpc = "saving"
  /\ lpc' = "idle"
  /\ out' = <<>>
  /\ saveEnded' = "crashed"
  /\ UNCHANGED <<disk, files_set, priorDisk, loaded>>

\* Lines 67-72, called by a later run.
Load ==
  /\ lpc = "idle"
  /\ loaded' = LoadRecord(disk)
  /\ UNCHANGED <<disk, lpc, out, files_set, priorDisk, saveEnded>>

NextLedger ==
  \/ OpenForWrite /\ UNCHANGED <<vars, chunkVars>>
  \/ WriteOut /\ UNCHANGED <<vars, chunkVars>>
  \/ CloseFile /\ UNCHANGED <<vars, chunkVars>>
  \/ Crash /\ UNCHANGED <<vars, chunkVars>>
  \/ Load /\ UNCHANGED <<vars, chunkVars>>

SpecLedger == InitLedger /\ [][NextLedger]_allVars

(***************************************************************************)
(* The text splitter of lines 147-152 on one page.  A page is a sequence   *)
(* of paragraphs, given by their lengths: runs of characters without white *)
(* space, joined by "\n\n".  RecursiveCharacterTextSplitter cuts at the    *)
(* first of "\n\n", "\n", " ", "" that the text holds, keeps the separator *)
(* at the head of the piece after it, merges pieces shorter than the chunk *)
(* size, and cuts a longer piece again with the separators that follow.    *)
(* A merged chunk is stripped of white space, and add_start_index records  *)
(* where it is found in the page (the text of a page is taken not to       *)
(* repeat, so that it is found where it was cut).                          *)
(***************************************************************************)
\* Paragraphs a page may hold.
MaxParas == 3

chunk_size == 5000

chunk_overlap == 2000

\* len("\n\n")
SepLen == 2

ParaLens == {1, 1900, 2600, 3000, 4900, 4998, 5000, 5001, 8000, 11001}

Pages == UNION {[1..k -> ParaLens] : k \in 1..MaxParas}

\* A piece of text: where it starts in the page, its length, and how many
\* of its first characters are white space.
Piece(start, len, lead) == [start |-> start, len |-> len, lead |-> lead]

RECURSIVE SumLen(_)
SumLen(ps) == IF ps = <<>> THEN 0 ELSE ps[1].len + SumLen(Tail(ps))

\* The white space at the head of the text of some pieces.
RECURSIVE LeadOf(_)
LeadOf(ps) ==
  IF ps = <<>> THEN 0
  ELSE IF ps[1].lead = ps[1].len THEN ps[1].len + LeadOf(Tail(ps))
  ELSE ps[1].lead

\* _join_docs and strip: the chunk of the pieces of current_doc, if not empty.
JoinDocs(cur) ==
  IF cur = <<>> \/ SumLen(cur) = LeadOf(cur) THEN <<>>
  ELSE <<[start_index |-> cur[1].start + LeadOf(cur),
          len |-> SumLen(cur) - LeadOf(cur)]>>

\* The while loop of _merge_splits: pieces leave current_doc from its head
\* until what stays is within the overlap and leaves room for the next piece.
RECURSIVE PopHead(_, _)
PopHead(cur, len) ==
  IF SumLen(cur) > chunk_overlap \/ (SumLen(cur) + len > chunk_size /\ SumLen(cur) > 0)
  THEN PopHead(Tail(cur), len)
  ELSE cur

\* _merge_splits(splits, ""), from split i on, with current_doc cur.
RECURSIVE MergeFrom(_, _, _)
MergeFrom(splits, i, cur) ==
  IF i > Len(splits) THEN JoinDocs(cur)
  ELSE IF SumLen(cur) + splits[i].len > chunk_size /\ cur # <<>>
  THEN JoinDocs(cur)
         \o MergeFrom(splits, i + 1, Append(PopHead(cur, splits[i].len), splits[i]))
  ELSE MergeFrom(splits, i + 1, Append(cur, splits[i]))

merge_splits(splits) == MergeFrom(splits, 1, <<>>)

\* The windows cut one after the other, without overlap.
RECURSIVE char_windows_no_overlap(_, _, _)
char_windows_no_overlap(start, n, lead) ==
  IF n <= chunk_size
  THEN <<[start_index |-> start + lead, len |-> n - lead]>>
  ELSE <<[start_index |-> start + lead, len |-> chunk_size - lead]>>
         \o char_windows_no_overlap(start + chunk_size, n - chunk_size, 0)

\* _merge_splits over the single characters of a text of n characters (the
\* separator ""), window by window: a chunk is closed when it holds
\* chunk_size characters, and the last chunk_overlap of them open the next.
RECURSIVE char_windows(_, _, _)
char_windows(start, n, lead) ==
  IF n <= chunk_size
  THEN <<[start_index |-> start + lead, len |-> n - lead]>>
  ELSE <<[start_index |-> start + lead, len |-> chunk_size - lead]>>
         \o char_windows(start + (chunk_size - chunk_overlap),
                         n - (chunk_size - chunk_overlap), 0)

\* The pieces of a page cut at "\n\n": the first paragraph, and every later
\* one with the separator at its head.
RECURSIVE PageStart(_, _)
PageStart(pg, i) ==
  IF i = 1 THEN 0 ELSE PageStart(pg, i - 1) + pg[i - 1] + (IF i = 2 THEN 0 ELSE SepLen)

PagePieces(pg) ==
  [i \in 1..Len(pg) |->
     IF i = 1 THEN Piece(0, pg[1], 0)
     ELSE Piece(PageStart(pg, i), pg[i] + SepLen, SepLen)]

\* _split_text on a piece "\n\n..." that is not shorter than the chunk size,
\* with the separators after "\n\n": cut at "\n" into "\n" and "\n...",
\* the latter cut into characters if it is still not shorter.
split_long_piece(p) ==
  IF p.lead = 0 THEN char_windows(p.start, p.len, 0)
  ELSE LET nl == Piece(p.start, 1, 1)
           rest == Piece(p.start + 1, p.len - 1, 1)
       IN IF rest.len < chunk_size
          THEN merge_splits(<<nl, rest>>)
          ELSE merge_splits(<<nl>>) \o char_windows(rest.start, rest.len, 1)

\* The loop of _split_text over the pieces from piece i on.
RECURSIVE SplitFrom(_, _, _)
SplitFrom(pieces, i, good) ==
  IF i > Len(pieces) THEN merge_splits(good)
  ELSE IF pieces[i].len < chunk_size
  THEN SplitFrom(pieces, i + 1, Append(good, pieces[i]))
  ELSE merge_splits(good) \o split_long_piece(pieces[i])
         \o SplitFrom(pieces, i + 1, <<>>)

\* split_text and the start_index of create_documents, for one page.
split_text(pg) ==
  IF Len(pg) = 1 THEN char_windows(0, pg[1], 0)
  ELSE SplitFrom(PagePieces(pg), 1, <<>>)

InitChunks ==
  /\ RunsAtRest
  /\ LedgerAtRest
  /\ page \in Pages
  /\ all_chunks = <<>>

\* Line 152 for one page of docs.
SplitPage ==
  /\ all_chunks = <<>>
  /\ all_chunks' = split_text(page)
  /\ UNCHANGED page

NextChunks == SplitPage /\ UNCHANGED <<vars, ledgerVars>>

SpecChunks == InitChunks /\ [][NextChunks]_allVars

(***************************************************************************)
(* Sets the claims speak of.                                               *)
(***************************************************************************)
\* The names on record in the ledger file as it is now.
Recorded == load_processed_files_record(ledgerFile)

\* The PDF files of the folder that the loader reads without error.
ReadablePdfs(f) == {n \in Names : f[n] = "file" /\ n.suffix \in {".pdf", ".PDF"}}

\* The entries of the folder whose pass of the loop ends in the except clause.
FailingEntries(f) ==
  {n \in Names : \/ f[n] = "corrupt" /\ n.suffix \in {".pdf", ".PDF"}
                 \/ f[n] \in {"file", "corrupt"} /\ n.suffix = ""}

RunEnded(outcome) == pc = "idle" /\ lastOutcome = outcome

\* C1: the decision is true exactly when the persist directory is missing or
\* the PDF names of the folder differ from the names in the ledger; checked
\* right after the decision, while the folder is still as it was scanned.
C1_RebuildIffIndexMissingOrSetsDiffer ==
  (pc = "decided" /\ ~fsChanged) =>
    (needs_rebuild <=>
       (~chroma.exists \/ get_current_pdf_files(folder) # Recorded))

\* C1 witness: the index exists and each of the two sets has a name the other lacks.
C1_Witness ==
  /\ pc = "decided"
  /\ ~fsChanged
  /\ chroma.exists
  /\ needs_rebuild
  /\ get_current_pdf_files(folder) \ Recorded # {}
  /\ Recorded \ get_current_pdf_files(folder) # {}

\* C2: after a run whose rebuild succeeded, the names loaded from the ledger
\* are exactly the PDF names the run's scan found: the scan's result, which
\* is the folder's PDF names as long as the folder has not changed since.
C2_LedgerIsScannedSet ==
  RunEnded("ok") =>
    /\ Recorded = current_pdf_files
    /\ ~fsChanged => Recorded = get_current_pdf_files(folder)

\* C2 witness: a successful rebuild dropped a name the ledger held before it.
C2_Witness ==
  /\ RunEnded("ok")
  /\ ~fsChanged
  /\ load_processed_files_record(before.ledger) \ Recorded # {}
  /\ Recorded # {}

\* C3: the ledger file differs from what it was when the run started only
\* once the run has ended with the store written; after a run in which the
\* backend failed the file is what it was, absent if it was absent.
C3_LedgerUnchangedOnFailure ==
  /\ ledgerFile # before.ledger => (RunEnded("ok") /\ pending = {})
  /\ RunEnded("failed") => ledgerFile = before.ledger

\* C3 witness: a rebuild failed after part of its chunks had been upserted,
\* with a ledger on disk that does not name what the folder holds.
C3_Witness ==
  /\ RunEnded("failed")
  /\ pending # {}
  /\ chroma.collection # before.store.collection
  /\ before.ledger.exists
  /\ current_pdf_files # Recorded

\* C4 as stated: a run started with the folder as the previous run scanned
\* it decides against a rebuild, makes no call and leaves ledger and store.
C4_SecondRunIsNoOp ==
  repeats # "none" =>
    /\ ~needs_rebuild
    /\ calls = {}
    /\ ledgerFile = before.ledger
    /\ chroma = before.store

\* C4 amended: the same, for a previous run that ended without a backend
\* failure (as a no-op or with its rebuild written and recorded).
C4_SecondRunIsNoOpAfterCompletedRun ==
  repeats \in {"ok", "noop"} =>
    /\ ~needs_rebuild
    /\ calls = {}
    /\ ledgerFile = before.ledger
    /\ chroma = before.store

\* C4 witness: the run after a successful rebuild of a nonempty folder ended as a no-op.
C4_Witness ==
  /\ repeats = "ok"
  /\ RunEnded("noop")
  /\ Recorded # {}

\* C5: the run after a failed rebuild, the folder unchanged, decides to rebuild.
C5_FailedRebuildIsRetried ==
  repeats = "failed" => needs_rebuild

\* C6: every name in the ledger has an entry in the collection written by
\* the rebuild that wrote the ledger.
C6_LedgerNamesOnlyEmbeddedFiles ==
  \A n \in Recorded :
    \E e \in chroma.collection : e.source = n /\ e.build = ledgerBuild

\* C7: after a successful rebuild the collection holds exactly the entries
\* of that rebuild's chunks.
C7_CollectionIsLastRebuild ==
  RunEnded("ok") => chroma.collection = Entries(all_splits, builds)

\* C8: after a run in which the backend failed, the store is as it was when
\* the run started, in existence and in content.
C8_StoreUnchangedOnFailure ==
  RunEnded("failed") => chroma = before.store

\* C9: the loading step of a rebuild never ends the run: it logs an error for
\* each failing entry, loads every readable PDF of the folder all the same,
\* and leaves the run at the store write.
C9_FailingEntriesAreSkipped ==
  [][(pc = "decided" /\ needs_rebuild /\ pc' # pc) =>
       /\ pc' = "loaded"
       /\ errors' = FailingEntries(folder)
       /\ {c.source : c \in all_splits'} = ReadablePdfs(folder)]_vars

\* C9 witness: a corrupt PDF and a file without suffix were logged, another
\* PDF was loaded, and the run went on to write the store.
C9_Witness ==
  /\ pc = "writing"
  /\ {a_pdf, README} \subseteq errors
  /\ b_PDF \in {c.source : c \in all_splits}

\* C10: the files a rebuild gives to the loader are the files its scan found.
C10_LoaderGetsScannedSet ==
  pc \in {"loaded", "writing"} => handed = current_pdf_files
\* C11: a run that decided against a rebuild gives no file to the loader,
\* makes no embedding, store or ledger call, and leaves the ledger file, the
\* collection and the existence of the store as they were when it started.
C11_NoRebuildChangesNothing ==
  ~needs_rebuild =>
    /\ pc \in {"idle", "decided"}
    /\ ledgerFile = before.ledger
    /\ chroma = before.store
    /\ calls = {}
    /\ handed = {}
    /\ all_splits = {}

\* C11 witness: a run over a recorded, indexed folder has ended as a no-op.
C11_Witness ==
  /\ RunEnded("noop")
  /\ ~needs_rebuild
  /\ Recorded # {}
  /\ chroma.collection # {}

\* The names of the regular files of a folder whose suffix is .pdf in any case.
EligiblePdfNames(f) ==
  {n \in Names : f[n] \in {"file", "corrupt"} /\ n.suffix \in {".pdf", ".PDF"}}

\* C16: the decision is a function of the existence of the index, the ledger
\* and the names of the folder's regular .pdf files: any folder with the same
\* such names (other content in a PDF, other non-PDF files, other subfolders)
\* gets the decision this run took, and when those names are the recorded
\* ones and the index exists, the decision is against a rebuild.
C16_DecisionDependsOnPdfNamesOnly ==
  (pc = "decided" /\ ~fsChanged) =>
    /\ \A g \in Folders :
         EligiblePdfNames(g) = EligiblePdfNames(folder) =>
           NeedsRebuild(chroma.exists, get_current_pdf_files(g), Recorded)
             = needs_rebuild
    /\ (chroma.exists /\ EligiblePdfNames(folder) = Recorded) => ~needs_rebuild

\* C16 witness: a recorded and embedded PDF was replaced by an unreadable file
\* of the same name, beside a subfolder and non-PDF files, and the run after
\* that change decided against a rebuild.
C16_Witness ==
  /\ pc = "decided"
  /\ ~fsChanged
  /\ repeats = "none"
  /\ lastOutcome = "ok"
  /\ ~needs_rebuild
  /\ a_pdf \in Recorded
  /\ \E e \in chroma.collection : e.source = a_pdf /\ e.build = ledgerBuild
  /\ folder[a_pdf] = "corrupt"
  /\ folder[old_pdf] = "dir"
  /\ folder[notes_txt] = "file"

\* C17: runs turn into no-ops only once a rebuild has completed: after a
\* no-op run the index exists, the ledger names the scanned PDF files, and a
\* completed rebuild wrote that ledger, so that no run of failed rebuilds
\* ends in no-ops over a store without a complete rebuild.
C17_NoOpOnlyAfterCompleteRebuild ==
  RunEnded("noop") =>
    /\ chroma.exists
    /\ Recorded = current_pdf_files
    /\ ledgerFile.exists
    /\ ledgerBuild >= 1
\* The lists of file names a well-formed ledger may hold.
NameLists == UNION {[1..k -> FileNameStrings] : k \in 0..(MaxTextLen + 2)}

\* C12: after a crash inside save the file is what it was before the save
\* (absent if it was absent) or the complete new text, nothing in between.
C12_SaveIsCrashAtomic ==
  saveEnded = "crashed" =>
    \/ disk = priorDisk
    \/ \E l \in Listings(files_set) : disk = [exists |-> TRUE, text |-> json_dump(l)]

\* C13: load returns a set only for a missing file, and then the empty set,
\* or for a file that holds a complete list of file names, and then the
\* names of that list; for any other content it raises.
C13_LoadAcceptsOnlyCompleteLedger ==
  loaded.status = "set" =>
    \/ ~disk.exists /\ loaded.value = {}
    \/ \E l \in NameLists :
         /\ disk.exists
         /\ disk.text = json_dump(l)
         /\ loaded.value = Range(l)

\* C15: a load after a completed save returns the set that was saved,
\* whatever the file held before.
C15_SaveThenLoadIsIdentity ==
  (saveEnded = "saved" /\ loaded.status # "none") =>
    loaded = [status |-> "set", value |-> files_set]

\* C15 witness: both names, the one with a quote too, were saved over a file
\* that held other text, and loaded back.
C15_Witness ==
  /\ saveEnded = "saved"
  /\ loaded.status = "set"
  /\ files_set = FileNameStrings
  /\ priorDisk.exists
  /\ priorDisk.text # <<>>
\* The length of a page as text.
PageLen(pg) == SumLen(PagePieces(pg))

CeilDiv(a, b) == (a + b - 1) \div b

\* The number of chunks of a sliding window over a text of L characters.
WindowCount(L) ==
  LET over == IF L > chunk_overlap THEN L - chunk_overlap ELSE 0
      k == CeilDiv(over, chunk_size - chunk_overlap)
  IN IF k < 1 THEN 1 ELSE k

SlidingWindow(pg, cs) ==
  /\ Len(cs) = WindowCount(PageLen(pg))
  /\ \A i \in 2..Len(cs) :
       cs[i].start_index = cs[i - 1].start_index + (chunk_size - chunk_overlap)

====
